---- MODULE Spec2Model ----
(***************************************************************************)
(* Model of the Creator Support Analytics metrics engine                   *)
(* (src/metrics.py, src/helpers.py).                                       *)
(*                                                                         *)
(* The state is the relational snapshot held by the SQLite connection      *)
(* (tables memberships, creators, content, engagement_events, rows in      *)
(* rowid order), the DataFrame the caller of calculate_cohort_retention     *)
(* holds, and the outcome of the last call.                                *)
(*                                                                         *)
(* Dates are the ISO texts 'YYYY-MM-DD' the tables store; a text date is   *)
(* modelled by the number YYYYMMDD, whose order is the lexicographic order *)
(* of the text (the order SQLite compares the columns in).  A month text   *)
(* 'YYYY-MM' is the number YYYYMM.  A nullable value is <<>> (NULL / None) *)
(* or <<v>>.                                                               *)
(***************************************************************************)
EXTENDS Integers, Sequences, FiniteSets, TLC

VARIABLES memberships, creators, content, engagement_events,
          memberships_df, op, ret, exc, queries

vars == <<memberships, creators, content, engagement_events,
          memberships_df, op, ret, exc, queries>>

snapshot == <<memberships, creators, content, engagement_events>>

-----------------------------------------------------------------------------
(* Nullable values *)

NULL == <<>>

Some(v) == <<v>>

IsNull(x) == x = <<>>

Val(x) == x[1]

-----------------------------------------------------------------------------
(* Calendar *)

DateOf(y, m, d) == y * 10000 + m * 100 + d

YearOf(date) == date \div 10000

MonthOf(date) == (date \div 100) % 100

DayOf(date) == date % 100

IsLeap(y) == (y % 4 = 0 /\ y % 100 # 0) \/ y % 400 = 0

DaysInMonth(y, m) ==
    IF m = 2 THEN (IF IsLeap(y) THEN 29 ELSE 28)
    ELSE IF m \in {4, 6, 9, 11} THEN 30 ELSE 31

(* strftime('%Y-%m', date) *)
StrftimeYM(date) == date \div 100

(* date(d, '+1 month'): the month is advanced and an overflowing day is     *)
(* normalised into the following month.                                    *)
PlusOneMonth(date) ==
    LET y  == YearOf(date)
        m  == MonthOf(date)
        d  == DayOf(date)
        y1 == IF m = 12 THEN y + 1 ELSE y
        m1 == IF m = 12 THEN 1 ELSE m + 1
        dim == DaysInMonth(y1, m1)
    IN  IF d <= dim THEN DateOf(y1, m1, d)
        ELSE DateOf(IF m1 = 12 THEN y1 + 1 ELSE y1,
                    IF m1 = 12 THEN 1 ELSE m1 + 1, d - dim)

GridStart == 20240101

ChurnGridStart == 20240201

GridEnd == 20250601

(* WITH RECURSIVE months(month_start): the seed row, then '+1 month' of     *)
(* every row whose month_start < date('2025-06-01').                       *)
RECURSIVE MonthsFrom(_)
MonthsFrom(month_start) ==
    <<month_start>> \o
        (IF month_start < GridEnd THEN MonthsFrom(PlusOneMonth(month_start))
         ELSE <<>>)

-----------------------------------------------------------------------------
(* Sequence helpers for result tables *)

RangeOf(s) == {s[i] : i \in DOMAIN s}

-----------------------------------------------------------------------------
(* Monthly Active Supporters *)

(* JOIN memberships t1 ON t1.start_date <= m.month_start AND               *)
(*   (t1.end_date IS NULL OR t1.end_date > m.month_start)                  *)
ActiveJoin(ms, month_start) ==
    {i \in DOMAIN ms :
        /\ ms[i].start_date <= month_start
        /\ (IsNull(ms[i].end_date) \/ Val(ms[i].end_date) > month_start)}

(* Mutant of CountDistinctFans: COUNT(t1.fan_id), without DISTINCT *)
CountFanRows(ms, rows) == Cardinality(rows)

(* COUNT(DISTINCT t1.fan_id) over the joined rows of one group *)
CountDistinctFans(ms, rows) == Cardinality({ms[i].fan_id : i \in rows})

(* The inner join yields no row for a month that joins no membership, so   *)
(* GROUP BY 1 has no group for it.                                         *)
GetMonthlyActiveSupporters(ms) ==
    LET Keep(m) == ActiveJoin(ms, m) # {}
        Row(m)  == [month |-> StrftimeYM(m),
                    monthly_active_supporters |->
                        CountDistinctFans(ms, ActiveJoin(ms, m))]
        kept == SelectSeq(MonthsFrom(GridStart), Keep)
    IN  [n \in DOMAIN kept |-> Row(kept[n])]

-----------------------------------------------------------------------------
(* Monthly Churn Rate *)

(* JOIN memberships t1 ON t1.start_date < m.month_start AND                *)
(*   (t1.end_date IS NULL OR t1.end_date >= m.month_start)                 *)
ActiveAtStartJoin(ms, month_start) ==
    {i \in DOMAIN ms :
        /\ ms[i].start_date < month_start
        /\ (IsNull(ms[i].end_date) \/ Val(ms[i].end_date) >= month_start)}

(* Mutant of ChurnedInMonth: the CASE summed over the whole table *)
ChurnedInMonthAllRows(ms, rows, month_start) ==
    Cardinality({i \in DOMAIN ms :
        /\ ~IsNull(ms[i].end_date)
        /\ StrftimeYM(Val(ms[i].end_date)) = StrftimeYM(month_start)})

(* SUM(CASE WHEN end_date IS NOT NULL AND strftime('%Y-%m', end_date) =    *)
(*   strftime('%Y-%m', month_start) THEN 1 ELSE 0 END) over the joined rows *)
ChurnedInMonth(ms, rows, month_start) ==
    Cardinality({i \in rows :
        /\ ~IsNull(ms[i].end_date)
        /\ StrftimeYM(Val(ms[i].end_date)) = StrftimeYM(month_start)})

(* monthly_status has one group per month that joins a membership; the     *)
(* outer SELECT keeps the groups WHERE active_at_start > 0.  The rate      *)
(* churned * 100.0 / active_at_start is kept as the exact fraction         *)
(* <<numerator, denominator>>.                                             *)
GetMonthlyChurnRate(ms) ==
    LET Active(m)  == ActiveAtStartJoin(ms, m)
        Keep(m) == Active(m) # {} /\ Cardinality(Active(m)) > 0
        Row(m)  == [month |-> StrftimeYM(m),
                    active_at_start |-> Cardinality(Active(m)),
                    churned_in_month |-> ChurnedInMonth(ms, Active(m), m),
                    monthly_churn_rate_pct |->
                        <<ChurnedInMonth(ms, Active(m), m) * 100,
                          Cardinality(Active(m))>>]
        kept == SelectSeq(MonthsFrom(ChurnGridStart), Keep)
    IN  [n \in DOMAIN kept |-> Row(kept[n])]

-----------------------------------------------------------------------------
(* ARPM (Average Revenue Per Member) *)

RECURSIVE SumOver(_, _)
(* SUM of f over the finite set S *)
SumOver(f, S) ==
    IF S = {} THEN 0
    ELSE LET x == CHOOSE y \in S : TRUE
         IN  f[x] + SumOver(f, S \ {x})

(* memberships JOIN months ... LEFT JOIN creators t2 ON t1.creator_id =     *)
(* t2.creator_id: the joined rows of one month, as pairs <<i, j>> of a     *)
(* membership row and a creators row; j = 0 is the all-NULL creators row   *)
(* the LEFT JOIN supplies to a membership that matches none.               *)
ArpmJoin(ms, cr, month_start) ==
    {p \in ActiveJoin(ms, month_start) \X (0..Len(cr)) :
        IF p[2] = 0
        THEN \A j \in DOMAIN cr : cr[j].creator_id # ms[p[1]].creator_id
        ELSE cr[p[2]].creator_id = ms[p[1]].creator_id}

(* segment_map: "creator_category" -> t2.category, "membership_tier" ->    *)
(* t1.tier, evaluated on one joined row                                    *)
SegmentValue(ms, cr, p, segment_by) ==
    IF segment_by = "creator_category"
    THEN (IF p[2] = 0 THEN NULL ELSE Some(cr[p[2]].category))
    ELSE Some(ms[p[1]].tier)

(* The values a segment column can hold, in SQLite's ascending order: NULL *)
(* first, then the texts in BINARY collation.                              *)
SegmentOrder(segment_by) ==
    IF segment_by = "creator_category"
    THEN <<NULL, Some("Art"), Some("Cooking"), Some("Education"), Some("Fitness"),
           Some("Gaming"), Some("Music"), Some("Vlogging")>>
    ELSE IF segment_by = "membership_tier"
    THEN <<Some("Bronze"), Some("Gold"), Some("Platinum"), Some("Silver")>>
    ELSE <<Some("livestream"), Some("post"), Some("video")>>

(* Mutant of SegmentRows: the group is selected by segment_value = v,      *)
(* which no row with a NULL segment satisfies.                             *)
SegmentRowsNullDropped(ms, cr, rows, segment_by, v) ==
    {p \in rows : ~IsNull(v) /\ SegmentValue(ms, cr, p, segment_by) = v}

(* GROUP BY 1, segment_value: the joined rows of one month whose segment   *)
(* is v (NULL segments form one group).                                    *)
SegmentRows(ms, cr, rows, segment_by, v) ==
    {p \in rows : SegmentValue(ms, cr, p, segment_by) = v}

(* SUM(t1.monthly_price), COUNT(DISTINCT t1.fan_id) and their quotient     *)
(* (the exact fraction <<sum, count>>) over the joined rows of one group   *)
ArpmAggregates(ms, rows) ==
    LET revenue == SumOver([p \in rows |-> ms[p[1]].monthly_price], rows)
        fans    == Cardinality({ms[p[1]].fan_id : p \in rows})
    IN  [total_monthly_revenue |-> revenue,
         monthly_active_supporters |-> fans,
         arpm |-> <<revenue, fans>>]

(* the query of get_arpm without a segment: GROUP BY 1 ORDER BY 1 *)
ArpmOverall(ms, cr) ==
    LET Keep(m) == ArpmJoin(ms, cr, m) # {}
        Row(m)  == [month |-> StrftimeYM(m)]
                   @@ ArpmAggregates(ms, ArpmJoin(ms, cr, m))
        kept == SelectSeq(MonthsFrom(GridStart), Keep)
    IN  [n \in DOMAIN kept |-> Row(kept[n])]

(* the keys <<month_start, segment>> in ORDER BY 1, segment_value order *)
SegmentKeys(segment_by) ==
    LET M == MonthsFrom(GridStart)
        V == SegmentOrder(segment_by)
        n == Len(V)
    IN  [k \in 1..(Len(M) * n) |->
            <<M[((k - 1) \div n) + 1], V[((k - 1) % n) + 1]>>]

(* the query of get_arpm with a segment: GROUP BY 1, segment_value         *)
(* ORDER BY 1, segment_value                                               *)
ArpmSegmented(ms, cr, segment_by) ==
    LET Group(k) == SegmentRows(ms, cr, ArpmJoin(ms, cr, k[1]), segment_by, k[2])
        Keep(k)  == Group(k) # {}
        Row(k)   == [month |-> StrftimeYM(k[1]), segment_value |-> k[2]]
                    @@ ArpmAggregates(ms, Group(k))
        kept == SelectSeq(SegmentKeys(segment_by), Keep)
    IN  [n \in DOMAIN kept |-> Row(kept[n])]

(* creator_primary_type: per creator_id of the content table, the          *)
(* content_type rows ranked by ROW_NUMBER() OVER (PARTITION BY creator_id  *)
(* ORDER BY the row count DESC), rn = 1 kept.  The ORDER BY names no key   *)
(* beyond the count: among the types that tie for the highest count SQL     *)
(* leaves the row numbered 1 unspecified, and every such assignment is a   *)
(* possible outcome.                                                       *)
ContentCount(ct, c, t) ==
    Cardinality({k \in DOMAIN ct : ct[k].creator_id = c /\ ct[k].content_type = t})

PrimaryTypeChoices(ct) ==
    LET cids  == {ct[k].creator_id : k \in DOMAIN ct}
        types == {ct[k].content_type : k \in DOMAIN ct}
    IN  {f \in [cids -> types] :
            \A c \in cids :
                /\ ContentCount(ct, c, f[c]) > 0
                /\ \A t \in types : ContentCount(ct, c, t) <= ContentCount(ct, c, f[c])}

(* the query of get_arpm_by_content_type: months JOIN memberships JOIN     *)
(* creator_primary_type cpt ON ms.creator_id = cpt.creator_id              *)
(* GROUP BY 1, 2 ORDER BY 1, 2                                             *)
GetArpmByContentType(ms, primary) ==
    LET Joined(m) == {<<i, 0>> : i \in {j \in ActiveJoin(ms, m) :
                                             ms[j].creator_id \in DOMAIN primary}}
        Group(k)  == {p \in Joined(k[1]) : Some(primary[ms[p[1]].creator_id]) = k[2]}
        Keep(k)   == Group(k) # {}
        Row(k)    == [month |-> StrftimeYM(k[1]), segment_value |-> k[2]]
                     @@ ArpmAggregates(ms, Group(k))
        kept == SelectSeq(SegmentKeys("content_type"), Keep)
    IN  [n \in DOMAIN kept |-> Row(kept[n])]

SegmentMap == [creator_category |-> "t2.category", membership_tier |-> "t1.tier"]

(* Python truth value of segment_by: None and the empty text are false *)
Truthy(segment_by) == ~IsNull(segment_by) /\ Val(segment_by) # ""

(* raise ValueError(f"Invalid segment_by: {segment_by}"): the message is   *)
(* the sequence of its text parts                                          *)
InvalidSegmentError(segment_by) ==
    [type |-> "ValueError", message |-> <<"Invalid segment_by: ", Val(segment_by)>>]

-----------------------------------------------------------------------------
(* Exact fractions <<n, d>>, d > 0, for the REAL / float results *)

RatSub(a, b) == <<a[1] * b[2] - b[1] * a[2], a[2] * b[2]>>

RatDiv(a, b) == IF b[1] > 0 THEN <<a[1] * b[2], a[2] * b[1]>>
                ELSE <<(0 - a[1]) * b[2], a[2] * (0 - b[1])>>

RatMul(a, b) == <<a[1] * b[1], a[2] * b[2]>>

RatEq(a, b) == a[1] * b[2] = b[1] * a[2]

RatLess(a, b) == a[1] * b[2] < b[1] * a[2]

-----------------------------------------------------------------------------
(* Engagement drop-off prior to churn *)

Min(a, b) == IF a <= b THEN a ELSE b

(* timestamp - pd.DateOffset(months=n): n calendar months back, the day    *)
(* clipped to the last day of the month reached                            *)
MinusMonths(date, n) ==
    LET total == YearOf(date) * 12 + (MonthOf(date) - 1) - n
        y == total \div 12
        m == (total % 12) + 1
    IN  DateOf(y, m, Min(DayOf(date), DaysInMonth(y, m)))

(* SELECT ... FROM memberships WHERE end_date IS NOT NULL, in rowid order *)
ChurnedMemberships(ms) == SelectSeq(ms, LAMBDA r : ~IsNull(r.end_date))

(* f"... IN {ids}" renders a Python tuple: "(1, 2)" for two ids or more,   *)
(* but "(1,)" for a single id, which SQLite rejects as a syntax error.     *)
InListParses(ids) == Cardinality(ids) # 1

(* engagement_events e JOIN content c ON e.content_id = c.content_id, as   *)
(* pairs <<e, c>> of row numbers                                           *)
AllEngagement(ct, ev, fan_ids, creator_ids) ==
    {p \in (DOMAIN ev) \X (DOMAIN ct) :
        /\ ev[p[1]].content_id = ct[p[2]].content_id
        /\ ev[p[1]].fan_id \in fan_ids
        /\ ct[p[2]].creator_id \in creator_ids}

(* the count of event_id over the fan's events on the creator's content    *)
(* with from <= event_date < to.  event_date carries a time of day and     *)
(* both limits are midnights, so the comparison is that of the days.       *)
CountEvents(ct, ev, all, fan_id, creator_id, from, to) ==
    Cardinality({p \in all :
        /\ ev[p[1]].fan_id = fan_id
        /\ ct[p[2]].creator_id = creator_id
        /\ ev[p[1]].event_date >= from
        /\ ev[p[1]].event_date < to})

(* Mutant of DropoffPct: the quotient taken whatever the baseline, a zero  *)
(* baseline giving 0                                                       *)
DropoffPctZeroForEmpty(engagement_baseline, engagement_pre_churn) ==
    IF engagement_baseline[1] > 0
    THEN Some(RatMul(RatDiv(RatSub(engagement_baseline, <<engagement_pre_churn, 1>>),
                            engagement_baseline), <<100, 1>>))
    ELSE Some(<<0, 1>>)

(* dropoff_pct = None; if engagement_baseline > 0: dropoff_pct =           *)
(*   ((engagement_baseline - engagement_pre_churn) / engagement_baseline)  *)
(*   * 100.0                                                               *)
DropoffPct(engagement_baseline, engagement_pre_churn) ==
    IF engagement_baseline[1] > 0
    THEN Some(RatMul(RatDiv(RatSub(engagement_baseline, <<engagement_pre_churn, 1>>),
                            engagement_baseline), <<100, 1>>))
    ELSE NULL

(* one iteration of the loop over the churned rows *)
DropoffRow(ct, ev, all, row) ==
    LET churn_date      == Val(row.end_date)
        pre_churn_start == MinusMonths(churn_date, 1)
        baseline_end    == pre_churn_start
        baseline_start  == MinusMonths(baseline_end, 3)
        engagement_pre_churn ==
            CountEvents(ct, ev, all, row.fan_id, row.creator_id,
                        pre_churn_start, churn_date)
        engagement_baseline ==
            <<CountEvents(ct, ev, all, row.fan_id, row.creator_id,
                          baseline_start, baseline_end), 3>>
    IN  [membership_id |-> row.membership_id,
         creator_id |-> row.creator_id,
         churn_date |-> churn_date,
         engagement_pre_churn |-> engagement_pre_churn,
         engagement_baseline_avg |-> engagement_baseline,
         dropoff_pct |-> DropoffPct(engagement_baseline, engagement_pre_churn)]

(* get_engagement_dropoff_prior_to_churn: the table returned, or the       *)
(* exception raised, and the number of queries run                         *)
GetEngagementDropoff(ms, ct, ev) ==
    LET churned      == ChurnedMemberships(ms)
        fan_ids      == {churned[i].fan_id : i \in DOMAIN churned}
        creator_ids  == {churned[i].creator_id : i \in DOMAIN churned}
        all          == AllEngagement(ct, ev, fan_ids, creator_ids)
    IN  IF churned = <<>>
        THEN [ret |-> <<>>, exc |-> NULL, queries |-> 1]
        ELSE IF ~(InListParses(fan_ids) /\ InListParses(creator_ids))
        THEN [ret |-> <<>>,
              exc |-> Some([type |-> "DatabaseError",
                            message |-> <<"Execution failed on sql">>]),
              queries |-> 2]
        ELSE [ret |-> [i \in DOMAIN churned |-> DropoffRow(ct, ev, all, churned[i])],
              exc |-> NULL, queries |-> 2]

-----------------------------------------------------------------------------
(* Top drivers of recurring support *)

HorizonEnd == 20250630

TopLimit == 10

(* julianday(date): the Julian day number of the calendar date (the        *)
(* constant half day of julianday() cancels in every difference)           *)
JulianDay(date) ==
    LET a  == (14 - MonthOf(date)) \div 12
        yy == YearOf(date) + 4800 - a
        mm == MonthOf(date) + 12 * a - 3
    IN  DayOf(date) + ((153 * mm + 2) \div 5) + 365 * yy
        + (yy \div 4) - (yy \div 100) + (yy \div 400) - 32045

(* julianday(CASE WHEN end_date IS NULL THEN date('2025-06-30')            *)
(*   ELSE end_date END) - julianday(start_date)                            *)
MembershipDurationDays(row) ==
    JulianDay(IF IsNull(row.end_date) THEN HorizonEnd ELSE Val(row.end_date))
    - JulianDay(row.start_date)

(* AVG(duration) and COUNT(membership_id) over the membership rows of one  *)
(* group; the average is the exact fraction <<sum, count>>                 *)
DurationAggregates(ms, rows) ==
    [avg_membership_duration_days |->
        <<SumOver([i \in rows |-> MembershipDurationDays(ms[i])], rows),
          Cardinality(rows)>>,
     total_memberships |-> Cardinality(rows)]

(* memberships m JOIN creators c ON m.creator_id = c.creator_id            *)
(* GROUP BY 1, 2: one row per (creator_id, category) of the joined rows    *)
CreatorGroups(ms, cr) ==
    LET joined == {p \in (DOMAIN ms) \X (DOMAIN cr) :
                      ms[p[1]].creator_id = cr[p[2]].creator_id}
        keys   == {<<cr[p[2]].creator_id, cr[p[2]].category>> : p \in joined}
        Rows(k) == {p \in joined : <<cr[p[2]].creator_id, cr[p[2]].category>> = k}
    IN  {[creator_id |-> k[1], category |-> k[2],
          avg_membership_duration_days |->
              <<SumOver([p \in Rows(k) |-> MembershipDurationDays(ms[p[1]])], Rows(k)),
                Cardinality(Rows(k))>>,
          total_memberships |-> Cardinality(Rows(k))] : k \in keys}

(* FROM memberships GROUP BY 1: one row per tier *)
TierGroups(ms) ==
    {[tier |-> t] @@ DurationAggregates(ms, {i \in DOMAIN ms : ms[i].tier = t}) :
        t \in {ms[i].tier : i \in DOMAIN ms}}

(* ORDER BY avg_membership_duration_days DESC: the ORDER BY has no second  *)
(* key, so SQL leaves the order of rows with equal averages unspecified;   *)
(* every arrangement with non-increasing averages is a possible outcome.   *)
DescendingOrders(rows) ==
    {s \in [1..Cardinality(rows) -> rows] :
        /\ \A i, j \in DOMAIN s : i # j => s[i] # s[j]
        /\ \A i, j \in DOMAIN s :
              i < j => ~RatLess(s[i].avg_membership_duration_days,
                                s[j].avg_membership_duration_days)}

(* ... ORDER BY 3 DESC LIMIT 10 *)
TopCreators(ms, cr) ==
    {SubSeq(s, 1, Min(TopLimit, Len(s))) : s \in DescendingOrders(CreatorGroups(ms, cr))}

(* ... ORDER BY 2 DESC *)
TierPerformance(ms) == DescendingOrders(TierGroups(ms))

-----------------------------------------------------------------------------
(* Cohort retention (helpers.calculate_cohort_retention).  A DataFrame is  *)
(* the sequence of its rows, a row a record of its columns.  A date cell   *)
(* is <<"str", d>> (the text read from the table) or <<"Timestamp", d>>.   *)

(* pd.read_sql_query("SELECT * FROM memberships", conn) *)
ReadMembershipsDf(ms) ==
    [i \in DOMAIN ms |->
        [membership_id |-> ms[i].membership_id, fan_id |-> ms[i].fan_id,
         creator_id |-> ms[i].creator_id, tier |-> ms[i].tier,
         monthly_price |-> ms[i].monthly_price,
         start_date |-> <<"str", ms[i].start_date>>,
         end_date |-> ms[i].end_date]]

(* pd.to_datetime of a date text or of a Timestamp *)
ToDatetime(cell) == <<"Timestamp", cell[2]>>

(* memberships_df['start_date'] = pd.to_datetime(...);                     *)
(* memberships_df['cohort_month'] = start_date.dt.to_period('M'):          *)
(* the caller's frame after the two column assignments                     *)
WithCohortMonth(df) ==
    [i \in DOMAIN df |->
        [membership_id |-> df[i].membership_id, fan_id |-> df[i].fan_id,
         creator_id |-> df[i].creator_id, tier |-> df[i].tier,
         monthly_price |-> df[i].monthly_price,
         start_date |-> ToDatetime(df[i].start_date),
         end_date |-> df[i].end_date,
         cohort_month |-> StrftimeYM(ToDatetime(df[i].start_date)[2])]]

(* Mutant of CohortSize: the memberships of the cohort counted, not their  *)
(* distinct fans                                                           *)
CohortSizeRows(df, cohort_month) ==
    Cardinality({j \in DOMAIN df : df[j].cohort_month = cohort_month})

(* groupby('cohort_month')['fan_id'].nunique() *)
CohortSize(df, cohort_month) ==
    Cardinality({df[i].fan_id : i \in {j \in DOMAIN df : df[j].cohort_month = cohort_month}})

FirstOfMonth(date) == DateOf(YearOf(date), MonthOf(date), 1)

RECURSIVE MonthStartsUpTo(_, _)
MonthStartsUpTo(month_start, end) ==
    IF month_start > end THEN <<>>
    ELSE <<month_start>> \o MonthStartsUpTo(PlusOneMonth(month_start), end)

(* pd.date_range(start=start, end=end, freq='MS'): the month starts d with *)
(* start <= d <= end, ascending                                            *)
DateRangeMS(start, end) ==
    MonthStartsUpTo(IF DayOf(start) = 1 THEN start
                    ELSE PlusOneMonth(FirstOfMonth(start)), end)

(* the body of the loop over memberships_df.iterrows(): the records one    *)
(* row appends to all_active_months                                        *)
ActiveMonthsOf(row) ==
    LET end_date   == IF ~IsNull(row.end_date) THEN Val(row.end_date) ELSE HorizonEnd
        start_date == row.start_date[2]
    IN  IF end_date >= start_date
        THEN LET months == DateRangeMS(start_date, end_date)
             IN  [k \in DOMAIN months |->
                    [fan_id |-> row.fan_id, cohort_month |-> row.cohort_month,
                     active_month |-> StrftimeYM(months[k])]]
        ELSE <<>>

RECURSIVE AllActiveMonths(_)
AllActiveMonths(df) ==
    IF df = <<>> THEN <<>>
    ELSE ActiveMonthsOf(Head(df)) \o AllActiveMonths(Tail(df))

(* drop_duplicates(subset=['fan_id', 'active_month']): the first record of *)
(* every (fan_id, active_month) is kept                                    *)
DropDuplicates(all) ==
    {all[k] : k \in {n \in DOMAIN all :
        \A j \in 1..(n - 1) :
            ~(all[j].fan_id = all[n].fan_id /\ all[j].active_month = all[n].active_month)}}

(* (active_month.to_timestamp() - cohort_month.to_timestamp()).days // 30 *)
MonthNumber(r) ==
    (JulianDay(r.active_month * 100 + 1) - JulianDay(r.cohort_month * 100 + 1)) \div 30

(* Mutant of RetainedFans: the records of the group counted, not their     *)
(* distinct fans                                                           *)
RetainedRecords(membership_months, k) ==
    Cardinality({q \in membership_months : <<q.cohort_month, MonthNumber(q)>> = k})

(* groupby(['cohort_month', 'month_number'])['fan_id'].nunique() for the   *)
(* group of key k                                                          *)
RetainedFans(membership_months, k) ==
    Cardinality({r.fan_id : r \in {q \in membership_months :
        <<q.cohort_month, MonthNumber(q)>> = k}})

(* calculate_cohort_retention from step 2 on, given the frame with its     *)
(* cohort_month column: the table returned, or the KeyError raised when no *)
(* membership has an active month (pd.DataFrame([]) has no column          *)
(* 'active_month').  groupby sorts the (cohort_month, month_number) keys   *)
(* ascending and the merge keeps that order.                               *)
CohortRetention(df) ==
    LET membership_months == DropDuplicates(AllActiveMonths(df))
        keys == {<<r.cohort_month, MonthNumber(r)>> : r \in membership_months}
        KeyLess(a, b) == a[1] < b[1] \/ (a[1] = b[1] /\ a[2] < b[2])
        sorted == [n \in 1..Cardinality(keys) |->
                    CHOOSE x \in keys :
                        Cardinality({y \in keys : KeyLess(y, x)}) = n - 1]
        Retained(k) == RetainedFans(membership_months, k)
    IN  IF membership_months = {}
        THEN [ret |-> <<>>,
              exc |-> Some([type |-> "KeyError", message |-> <<"active_month">>])]
        ELSE [ret |-> [n \in DOMAIN sorted |->
                        [cohort_month |-> sorted[n][1],
                         month_number |-> sorted[n][2],
                         retained_fans |-> Retained(sorted[n]),
                         cohort_size |-> CohortSize(df, sorted[n][1]),
                         retention_rate_pct |->
                            <<Retained(sorted[n]) * 100, CohortSize(df, sorted[n][1])>>]],
              exc |-> NULL]

-----------------------------------------------------------------------------
(* Snapshots.  A table is the sequence of its rows in rowid order;          *)
(* membership_id is the rowid.  Every membership satisfies the data model: *)
(* start_date <= end_date when end_date is present, monthly_price > 0 and  *)
(* fixed by the tier (generate_memberships).                               *)

MaxMemberships == 2

Fans == {1, 2}

CreatorIds == {1, 2}

TierPrice == [Bronze |-> 5, Silver |-> 10, Gold |-> 20, Platinum |-> 50]

MembershipRows(fans, cids, tiers, starts, ends) ==
    {[fan_id |-> f, creator_id |-> c, tier |-> t, monthly_price |-> TierPrice[t],
      start_date |-> s, end_date |-> e] :
        f \in fans, c \in cids, t \in tiers,
        s \in starts, e \in {NULL} \cup {Some(d) : d \in ends}}

WellFormed(row) == IsNull(row.end_date) \/ row.start_date <= Val(row.end_date)

WithIds(rows) ==
    [i \in DOMAIN rows |->
        [membership_id |-> i, fan_id |-> rows[i].fan_id,
         creator_id |-> rows[i].creator_id, tier |-> rows[i].tier,
         monthly_price |-> rows[i].monthly_price,
         start_date |-> rows[i].start_date, end_date |-> rows[i].end_date]]

MembershipTables(rowset) ==
    {WithIds(t) : t \in UNION {[1..k -> {r \in rowset : WellFormed(r)}] :
                                  k \in 0..MaxMemberships}}

ContentTypes == {"video", "post"}

Categories == {"Art", "Gaming"}

(* creators tables: creator_id is unique and ascending; a membership may   *)
(* name a creator the table does not hold                                  *)
CreatorTables ==
    {<<>>} \cup {<<[creator_id |-> 1, category |-> c]>> : c \in Categories}
           \cup {<<[creator_id |-> 1, category |-> c],
                   [creator_id |-> 2, category |-> d]>> : c, d \in Categories}

(* content tables: content_id is the rowid *)
ContentTables ==
    {<<>>,
     <<[content_id |-> 1, creator_id |-> 1, content_type |-> "video"]>>,
     <<[content_id |-> 1, creator_id |-> 1, content_type |-> "video"],
       [content_id |-> 2, creator_id |-> 1, content_type |-> "post"]>>,
     <<[content_id |-> 1, creator_id |-> 1, content_type |-> "video"],
       [content_id |-> 2, creator_id |-> 2, content_type |-> "post"]>>}

MaxEvents == 2

(* engagement_events tables: event_id is the rowid.  No aggregator reads   *)
(* the order of the events, so the tables are enumerated with their rows   *)
(* in one order (ascending in date, fan, content).                         *)
EventTables(fans, cids, dates) ==
    LET rows == {[fan_id |-> f, content_id |-> c, event_date |-> d] :
                    f \in fans, c \in cids, d \in dates}
        Key(r) == (r.event_date * 10 + r.fan_id) * 10 + r.content_id
        raw  == UNION {[1..k -> rows] : k \in 0..MaxEvents}
    IN  {[i \in DOMAIN t |->
            [event_id |-> i, fan_id |-> t[i].fan_id,
             content_id |-> t[i].content_id, event_date |-> t[i].event_date]] :
         t \in {u \in raw : \A i, j \in DOMAIN u : i < j => Key(u[i]) <= Key(u[j])}}

-----------------------------------------------------------------------------
(* Calls.  op is the last call with its argument, ret the value it         *)
(* returned, exc the exception it raised (NULL when it returned), queries  *)
(* the number of queries _execute_query was given during it.               *)

NoCall ==
    /\ op = <<"none">>
    /\ ret = <<>>
    /\ exc = NULL
    /\ queries = 0

CallGetMonthlyActiveSupporters ==
    /\ op' = <<"get_monthly_active_supporters">>
    /\ ret' = GetMonthlyActiveSupporters(memberships)
    /\ exc' = NULL
    /\ queries' = 1
    /\ UNCHANGED <<snapshot, memberships_df>>

CallGetMonthlyChurnRate ==
    /\ op' = <<"get_monthly_churn_rate">>
    /\ ret' = GetMonthlyChurnRate(memberships)
    /\ exc' = NULL
    /\ queries' = 1
    /\ UNCHANGED <<snapshot, memberships_df>>

SegmentByInputs ==
    {NULL, Some(""), Some("creator_category"), Some("membership_tier"),
     Some("content_type"), Some("content_type_proxy"), Some("none"),
     Some("tier")}

(* get_arpm(segment_by) *)
CallGetArpm ==
    \E segment_by \in SegmentByInputs :
        /\ op' = <<"get_arpm", segment_by>>
        /\ IF segment_by = Some("content_type")
           THEN \E primary \in PrimaryTypeChoices(content) :
                    /\ ret' = GetArpmByContentType(memberships, primary)
                    /\ exc' = NULL
                    /\ queries' = 1
           ELSE IF Truthy(segment_by) /\ Val(segment_by) \notin DOMAIN SegmentMap
           THEN /\ ret' = <<>>
                /\ exc' = Some(InvalidSegmentError(segment_by))
                /\ queries' = 0
           ELSE /\ ret' = IF Truthy(segment_by)
                          THEN ArpmSegmented(memberships, creators, Val(segment_by))
                          ELSE ArpmOverall(memberships, creators)
                /\ exc' = NULL
                /\ queries' = 1
        /\ UNCHANGED <<snapshot, memberships_df>>

CallGetEngagementDropoff ==
    LET out == GetEngagementDropoff(memberships, content, engagement_events)
    IN  /\ op' = <<"get_engagement_dropoff_prior_to_churn">>
        /\ ret' = out.ret
        /\ exc' = out.exc
        /\ queries' = out.queries
        /\ UNCHANGED <<snapshot, memberships_df>>

CallGetTopDrivers ==
    \E top \in TopCreators(memberships, creators), tiers \in TierPerformance(memberships) :
        /\ op' = <<"get_top_drivers_of_recurring_support">>
        /\ ret' = [top_creators |-> top, tier_performance |-> tiers]
        /\ exc' = NULL
        /\ queries' = 2
        /\ UNCHANGED <<snapshot, memberships_df>>

(* generate_visuals.main: memberships_df = pd.read_sql_query(...) *)
ReadMemberships ==
    /\ memberships_df' = ReadMembershipsDf(memberships)
    /\ op' = <<"read_sql_query">>
    /\ ret' = <<>>
    /\ exc' = NULL
    /\ queries' = 1
    /\ UNCHANGED snapshot

(* calculate_cohort_retention(memberships_df): the column assignments of   *)
(* step 1 are made on the caller's frame before anything can raise.        *)
CallCalculateCohortRetention ==
    LET df  == WithCohortMonth(memberships_df)
        out == CohortRetention(df)
    IN  /\ op[1] \in {"read_sql_query", "calculate_cohort_retention"}
        /\ memberships_df' = df
        /\ op' = <<"calculate_cohort_retention">>
        /\ ret' = out.ret
        /\ exc' = out.exc
        /\ queries' = 0
        /\ UNCHANGED snapshot

-----------------------------------------------------------------------------
(* Specification of the supporter counts (MAS, churn): memberships of two  *)
(* fans that start and end on and between the month boundaries.            *)

SupporterDates == {20240101, 20240110, 20240120, 20240201, 20240305}

InitSupporters ==
    /\ memberships \in MembershipTables(
            MembershipRows(Fans, {1}, {"Bronze"}, SupporterDates, SupporterDates))
    /\ creators = <<>>
    /\ content = <<>>
    /\ engagement_events = <<>>
    /\ memberships_df = <<>>
    /\ NoCall

NextSupporters ==
    \/ CallGetMonthlyActiveSupporters
    \/ CallGetMonthlyChurnRate

SpecSupporters == InitSupporters /\ [][NextSupporters]_vars

(* the row of a result table for a month, as a set (empty: no row) *)
RowsOfMonth(table, month) == {k \in DOMAIN table : table[k].month = month}

(* C1: every row (month, monthly_active_supporters) returned by            *)
(* get_monthly_active_supporters has the count of a brute-force scan: the  *)
(* number of distinct fans with a membership such that start_date <= m and *)
(* (end_date is null or m < end_date), m the first day of the month; a fan *)
(* with several simultaneously active memberships is counted once.         *)
C1_MasEqualsBruteForce ==
    op = <<"get_monthly_active_supporters">> =>
        \A k \in DOMAIN ret :
            LET m == ret[k].month * 100 + 1
            IN  ret[k].monthly_active_supporters =
                    Cardinality({f \in Fans :
                        \E i \in DOMAIN memberships :
                            /\ memberships[i].fan_id = f
                            /\ memberships[i].start_date <= m
                            /\ (IsNull(memberships[i].end_date)
                                \/ m < Val(memberships[i].end_date))})

(* a returned row counts one fan who holds two memberships active at the   *)
(* month boundary, one of them ending later                                *)
C1_Witness ==
    /\ op = <<"get_monthly_active_supporters">>
    /\ \E k \in DOMAIN ret :
          /\ ret[k].month = 202402
          /\ ret[k].monthly_active_supporters = 1
          /\ Len(memberships) = 2
          /\ \A i \in DOMAIN memberships :
                /\ memberships[i].start_date <= 20240201
                /\ (IsNull(memberships[i].end_date)
                    \/ Val(memberships[i].end_date) = 20240305)

(* C2: get_monthly_active_supporters returns one row for every month of    *)
(* the grid 2024-01 .. 2025-06, and a grid month at which no membership is *)
(* active appears with monthly_active_supporters = 0.                      *)
C2_EveryGridMonthHasRow ==
    op = <<"get_monthly_active_supporters">> =>
        \A m \in RangeOf(MonthsFrom(GridStart)) :
            /\ Cardinality(RowsOfMonth(ret, StrftimeYM(m))) = 1
            /\ (\A i \in DOMAIN memberships :
                    ~(/\ memberships[i].start_date <= m
                      /\ (IsNull(memberships[i].end_date)
                          \/ m < Val(memberships[i].end_date))))
                => \A k \in RowsOfMonth(ret, StrftimeYM(m)) :
                      ret[k].monthly_active_supporters = 0

(* C3: for the snapshot of one membership with start_date 2024-01-10 and   *)
(* no end_date, get_monthly_active_supporters reports 1 for month 2024-01  *)
(* and 1 for month 2024-02.                                                *)
C3_MidMonthStartCounted ==
    (/\ op = <<"get_monthly_active_supporters">>
     /\ Len(memberships) = 1
     /\ memberships[1].start_date = 20240110
     /\ IsNull(memberships[1].end_date))
    => /\ \E k \in DOMAIN ret :
            ret[k].month = 202401 /\ ret[k].monthly_active_supporters = 1
       /\ \E k \in DOMAIN ret :
            ret[k].month = 202402 /\ ret[k].monthly_active_supporters = 1

(* C4: every row returned by get_monthly_churn_rate has active_at_start >  *)
(* 0 and 0 <= churned_in_month <= active_at_start, so that the rate lies   *)
(* in [0, 100]; a grid month with no membership active at its start has no *)
(* row.                                                                    *)
C4_ChurnRowsWithinBounds ==
    op = <<"get_monthly_churn_rate">> =>
        /\ \A k \in DOMAIN ret :
              /\ ret[k].active_at_start > 0
              /\ 0 <= ret[k].churned_in_month
              /\ ret[k].churned_in_month <= ret[k].active_at_start
              /\ ret[k].monthly_churn_rate_pct[2] > 0
              /\ ~RatLess(ret[k].monthly_churn_rate_pct, <<0, 1>>)
              /\ ~RatLess(<<100, 1>>, ret[k].monthly_churn_rate_pct)
        /\ \A m \in RangeOf(MonthsFrom(ChurnGridStart)) :
              (\A i \in DOMAIN memberships :
                  ~(/\ memberships[i].start_date < m
                    /\ (IsNull(memberships[i].end_date)
                        \/ Val(memberships[i].end_date) >= m)))
              => RowsOfMonth(ret, StrftimeYM(m)) = {}

(* a churn table with a month of full churn, after which the grid months   *)
(* have no row                                                             *)
C4_Witness ==
    /\ op = <<"get_monthly_churn_rate">>
    /\ \E k \in DOMAIN ret :
          /\ ret[k].churned_in_month = ret[k].active_at_start
          /\ ret[k].month = 202403
    /\ RowsOfMonth(ret, 202404) = {}
    /\ Len(memberships) = 2

-----------------------------------------------------------------------------
(* Specification of cohort retention: the caller reads memberships_df and  *)
(* passes it to calculate_cohort_retention.  Memberships of two fans start *)
(* on the first day or in the middle of a month.                           *)

RetentionStarts == {20240101, 20240110, 20240201, 20240305}

RetentionEnds == {20240120, 20240501}

InitRetention ==
    /\ memberships \in MembershipTables(
            MembershipRows(Fans, {1}, {"Bronze"}, RetentionStarts, RetentionEnds))
    /\ creators = <<>>
    /\ content = <<>>
    /\ engagement_events = <<>>
    /\ memberships_df = <<>>
    /\ NoCall

NextRetention ==
    \/ ReadMemberships
    \/ CallCalculateCohortRetention

SpecRetention == InitRetention /\ [][NextRetention]_vars

(* C5: for every cohort month c that has a membership, the table returned  *)
(* by calculate_cohort_retention holds a row (c, month_number = 0) whose   *)
(* retention_rate_pct is 100, whatever day of the month the memberships    *)
(* start on.                                                               *)
C5_MonthZeroFullyRetained ==
    op = <<"calculate_cohort_retention">> =>
        \A i \in DOMAIN memberships_df :
            \E k \in DOMAIN ret :
                /\ ret[k].cohort_month = StrftimeYM(memberships_df[i].start_date[2])
                /\ ret[k].month_number = 0
                /\ RatEq(ret[k].retention_rate_pct, <<100, 1>>)

(* C6: for a membership with start_date 2024-01-01 and end_date 2024-05-01 *)
(* the active months calculate_cohort_retention enumerates are exactly     *)
(* 2024-01 .. 2024-04 (the month of an end_date on the first of the month  *)
(* is excluded).                                                           *)
C6_EndMonthExcluded ==
    (/\ op = <<"calculate_cohort_retention">>
     /\ Len(memberships_df) = 1
     /\ memberships_df[1].start_date[2] = 20240101
     /\ memberships_df[1].end_date = Some(20240501))
    => /\ {r.active_month : r \in RangeOf(AllActiveMonths(memberships_df))}
            = {202401, 202402, 202403, 202404}
       /\ {ret[k].month_number : k \in DOMAIN ret} = {0, 1, 2, 3}

-----------------------------------------------------------------------------
(* Specification of ARPM: memberships with two creators and two tiers,     *)
(* over creators tables that hold both creators, or only the first one,    *)
(* and content with and without a tie for the primary type.                *)

Catalogs ==
    {<<cr, ct>> \in CreatorTables \X ContentTables :
        \/ Len(cr) = 2 /\ Len(ct) = 2 /\ cr[1].category # cr[2].category
                      /\ cr[1].category = "Art" /\ ct[2].creator_id = 2
        \/ Len(cr) = 1 /\ Len(ct) = 2 /\ cr[1].category = "Gaming"
                      /\ ct[2].creator_id = 1
        \/ Len(cr) = 2 /\ Len(ct) = 0 /\ cr[1].category = "Art"
                      /\ cr[2].category = "Art"}

InitArpm ==
    /\ memberships \in MembershipTables(
            MembershipRows({1}, CreatorIds, {"Bronze", "Gold"}, {20240101}, {20240201}))
    /\ \E cat \in Catalogs :
          /\ creators = cat[1]
          /\ content = cat[2]
    /\ engagement_events = <<>>
    /\ memberships_df = <<>>
    /\ NoCall

NextArpm == CallGetArpm

SpecArpm == InitArpm /\ [][NextArpm]_vars

(* the months of a result table *)
MonthsIn(table) == {table[k].month : k \in DOMAIN table}

(* per month of the unsegmented table, the segment rows of that month sum  *)
(* to its revenue, and both tables hold the same months                    *)
SegmentsSumTo(segmented, overall) ==
    /\ MonthsIn(segmented) = MonthsIn(overall)
    /\ \A k \in DOMAIN overall :
          SumOver([n \in DOMAIN segmented |-> segmented[n].total_monthly_revenue],
                  RowsOfMonth(segmented, overall[k].month))
              = overall[k].total_monthly_revenue

(* C7: for segment_by in {creator_category, membership_tier} and every     *)
(* month of get_arpm(), the total_monthly_revenue of the segment rows of   *)
(* the month sums to that of the unsegmented row, and both results hold    *)
(* the same months -- also for memberships whose creator has no creators   *)
(* row.                                                                    *)
C7_SegmentRevenueSumsToOverall ==
    (op[1] = "get_arpm" /\ op[2] \in {Some("creator_category"), Some("membership_tier")})
        => SegmentsSumTo(ret, ArpmOverall(memberships, creators))

(* get_arpm("creator_category") returned a month with two segments, one of *)
(* them the NULL category of a creator without a creators row              *)
C7_Witness ==
    /\ op = <<"get_arpm", Some("creator_category")>>
    /\ \E k, n \in DOMAIN ret :
          /\ ret[k].month = ret[n].month
          /\ IsNull(ret[k].segment_value)
          /\ ~IsNull(ret[n].segment_value)
          /\ ret[k].total_monthly_revenue # ret[n].total_monthly_revenue

(* The enumerated segmentations, as get_arpm's docstring names them: None  *)
(* (the spec's none), 'creator_category', 'membership_tier' and            *)
(* 'content_type' (the spec's content_type_proxy).                         *)
PermittedSegments ==
    {NULL, Some("creator_category"), Some("membership_tier"), Some("content_type")}

(* C8: get_arpm with a segment_by outside the enumerated set fails with an *)
(* InvalidArgument error whose message names the permitted set, and runs   *)
(* no query; every value of the enumerated set is accepted and returns a   *)
(* table.                                                                  *)
C8_InvalidSegmentRejected ==
    op[1] = "get_arpm" =>
        IF op[2] \in PermittedSegments
        THEN IsNull(exc) /\ queries = 1
        ELSE /\ ~IsNull(exc)
             /\ queries = 0
             /\ \A s \in PermittedSegments \ {NULL} :
                    Val(s) \in RangeOf(Val(exc).message)

-----------------------------------------------------------------------------
(* Specification of the top drivers: memberships of two creators and two   *)
(* tiers that last one month, two months, end a month after the horizon    *)
(* (2025-07-30), or are still open.                                        *)

TopDriverEnds == {20240201, 20240305, 20250730}

InitTopDrivers ==
    /\ memberships \in MembershipTables(
            MembershipRows({1}, CreatorIds, {"Bronze", "Gold"}, {20240101},
                           TopDriverEnds))
    /\ creators \in {cr \in CreatorTables : Len(cr) = 2 /\ cr[1].category = "Art"}
    /\ content = <<>>
    /\ engagement_events = <<>>
    /\ memberships_df = <<>>
    /\ NoCall

NextTopDrivers == CallGetTopDrivers

SpecTopDrivers == InitTopDrivers /\ [][NextTopDrivers]_vars

(* C9: the top_creators table of get_top_drivers_of_recurring_support has  *)
(* at most 10 rows, is sorted strictly descending by                       *)
(* avg_membership_duration_days, and the same snapshot always yields the   *)
(* same rows in the same order (ties are broken deterministically).        *)
C9_TopCreatorsStrictAndDeterministic ==
    [][op' = <<"get_top_drivers_of_recurring_support">> =>
        /\ Len(ret'.top_creators) <= TopLimit
        /\ \A i, j \in DOMAIN ret'.top_creators :
              i < j => RatLess(ret'.top_creators[j].avg_membership_duration_days,
                               ret'.top_creators[i].avg_membership_duration_days)
        /\ op = <<"get_top_drivers_of_recurring_support">>
              => ret'.top_creators = ret.top_creators]_vars

-----------------------------------------------------------------------------
(* Specification of the engagement drop-off: memberships of two fans with  *)
(* two creators, churned on 2024-05-31 or open, and events of the fans on  *)
(* the creators' content inside the baseline window (2024-02-15) and on    *)
(* the first day of the pre-churn window (2024-04-30).                     *)

InitDropoff ==
    /\ memberships \in MembershipTables(
            MembershipRows(Fans, CreatorIds, {"Bronze"}, {20240101}, {20240531}))
    /\ creators = <<>>
    /\ content \in {ct \in ContentTables : Len(ct) = 2 /\ ct[2].creator_id = 2}
    /\ engagement_events \in EventTables(Fans, {1, 2}, {20240215, 20240430})
    /\ memberships_df = <<>>
    /\ NoCall

NextDropoff == CallGetEngagementDropoff

SpecDropoff == InitDropoff /\ [][NextDropoff]_vars

(* the events of a fan on a creator's content with from <= date < to, by a *)
(* scan of the two tables                                                  *)
EventsInWindow(fan_id, creator_id, from, to) ==
    {e \in DOMAIN engagement_events :
        /\ engagement_events[e].fan_id = fan_id
        /\ \E c \in DOMAIN content :
              /\ content[c].content_id = engagement_events[e].content_id
              /\ content[c].creator_id = creator_id
        /\ from <= engagement_events[e].event_date
        /\ engagement_events[e].event_date < to}

(* C10: in get_engagement_dropoff_prior_to_churn, every record of a        *)
(* churned membership whose baseline window holds no engagement event of   *)
(* the fan on the creator's content (engagement_baseline_avg = 0) has a    *)
(* null dropoff_pct, and a record with engagement_baseline_avg > 0 has     *)
(* dropoff_pct = (baseline_avg - engagement_pre_churn) / baseline_avg *    *)
(* 100.                                                                    *)
C10_DropoffNullOnEmptyBaseline ==
    op = <<"get_engagement_dropoff_prior_to_churn">> =>
        \A k \in DOMAIN ret :
            LET r    == ret[k]
                base == r.engagement_baseline_avg
                m    == memberships[r.membership_id]
                pre_churn_start == MinusMonths(r.churn_date, 1)
                window == EventsInWindow(m.fan_id, m.creator_id,
                                         MinusMonths(pre_churn_start, 3), pre_churn_start)
            IN  /\ (window = {}) <=> (base[1] = 0)
                /\ base[1] = 0 => IsNull(r.dropoff_pct)
                /\ base[1] > 0 =>
                      /\ ~IsNull(r.dropoff_pct)
                      /\ RatEq(Val(r.dropoff_pct),
                               <<(base[1] - r.engagement_pre_churn * base[2]) * 100,
                                 base[1]>>)

(* a returned table with a record of an empty baseline and a record of a   *)
(* baseline with events whose pre-churn engagement fell                    *)
C10_Witness ==
    /\ op = <<"get_engagement_dropoff_prior_to_churn">>
    /\ \E k, n \in DOMAIN ret :
          /\ ret[k].engagement_baseline_avg[1] = 0
          /\ IsNull(ret[k].dropoff_pct)
          /\ ret[n].engagement_baseline_avg[1] > 0
          /\ RatEq(Val(ret[n].dropoff_pct), <<100, 1>>)

-----------------------------------------------------------------------------
(* Specification of the cohort sizes: open memberships of two fans with    *)
(* two creators, started on 2024-02-01 or on 2024-03-05, so that one fan   *)
(* can hold two memberships of one cohort month.                           *)

CohortSizeStarts == {20240201, 20240305}

InitCohortSize ==
    /\ memberships \in MembershipTables(
            MembershipRows(Fans, CreatorIds, {"Bronze"}, CohortSizeStarts, {}))
    /\ creators = <<>>
    /\ content = <<>>
    /\ engagement_events = <<>>
    /\ memberships_df = <<>>
    /\ NoCall

NextCohortSize ==
    \/ ReadMemberships
    \/ CallCalculateCohortRetention

SpecCohortSize == InitCohortSize /\ [][NextCohortSize]_vars

(* C11: the cohort_size of every row returned by                           *)
(* calculate_cohort_retention is the number of distinct fan_id values      *)
(* among the memberships whose start_date lies in the row's cohort month,  *)
(* not the number of those memberships.                                    *)
C11_CohortSizeCountsDistinctFans ==
    op = <<"calculate_cohort_retention">> =>
        \A k \in DOMAIN ret :
            ret[k].cohort_size =
                Cardinality({memberships[i].fan_id :
                    i \in {j \in DOMAIN memberships :
                        StrftimeYM(memberships[j].start_date) = ret[k].cohort_month}})

(* two memberships of one fan with different creators, both started on     *)
(* 2024-03-05, and a returned row of cohort 2024-03 with cohort_size 1     *)
C11_Witness ==
    /\ op = <<"calculate_cohort_retention">>
    /\ Len(memberships) = 2
    /\ memberships[1].fan_id = memberships[2].fan_id
    /\ memberships[1].creator_id # memberships[2].creator_id
    /\ memberships[1].start_date = 20240305
    /\ memberships[2].start_date = 20240305
    /\ \E k \in DOMAIN ret : ret[k].cohort_month = 202403 /\ ret[k].cohort_size = 1

-----------------------------------------------------------------------------
(* C12: for every snapshot get_engagement_dropoff_prior_to_churn completes *)
(* without error and returns exactly one record per membership with a      *)
(* non-null end_date and no record of an open membership -- also when no   *)
(* membership is churned and when all churned memberships belong to one    *)
(* fan_id or to one creator_id.                                            *)
C12_DropoffOneRecordPerChurned ==
    op = <<"get_engagement_dropoff_prior_to_churn">> =>
        LET churned_ids == {memberships[i].membership_id :
                              i \in {j \in DOMAIN memberships :
                                        ~IsNull(memberships[j].end_date)}}
        IN  /\ IsNull(exc)
            /\ Len(ret) = Cardinality(churned_ids)
            /\ {ret[k].membership_id : k \in DOMAIN ret} = churned_ids

-----------------------------------------------------------------------------
(* C13: in get_arpm_by_content_type every segment row carries a            *)
(* content_type that has the maximal publish count for a creator with      *)
(* content, and a tie for the maximum is broken by a deterministic order:  *)
(* two evaluations over the same snapshot return identical segment rows.   *)
C13_PrimaryTypeDeterministic ==
    [][op' = <<"get_arpm", Some("content_type")>> =>
        /\ \A k \in DOMAIN ret' :
              \E c \in {content[n].creator_id : n \in DOMAIN content} :
                  /\ ContentCount(content, c, Val(ret'[k].segment_value)) > 0
                  /\ \A t \in ContentTypes :
                        ContentCount(content, c, t)
                            <= ContentCount(content, c, Val(ret'[k].segment_value))
        /\ op = <<"get_arpm", Some("content_type")>> => ret' = ret]_vars

-----------------------------------------------------------------------------
(* the mean, over the membership rows, of min(end_date, horizon_end) -     *)
(* start_date in days, an open membership ending at horizon_end            *)
CensoredMeanDays(rows) ==
    <<SumOver([i \in rows |->
                  JulianDay(IF IsNull(memberships[i].end_date) THEN HorizonEnd
                            ELSE Min(Val(memberships[i].end_date), HorizonEnd))
                  - JulianDay(memberships[i].start_date)], rows),
      Cardinality(rows)>>

-----------------------------------------------------------------------------
(* C15: calculate_cohort_retention(memberships_df) leaves the caller's     *)
(* membership records unchanged: after the call the frame has the same     *)
(* attributes with the same values as before it (no attribute added, none  *)
(* rewritten).                                                             *)
C15_RetentionLeavesFrameUnchanged ==
    [][op' = <<"calculate_cohort_retention">> => memberships_df' = memberships_df]_vars

-----------------------------------------------------------------------------
(* the (cohort_month, month_number, retained_fans, cohort_size) rows of a  *)
(* retention table, as a set                                               *)
RetentionRowSet(table) ==
    {<<table[k].cohort_month, table[k].month_number,
       table[k].retained_fans, table[k].cohort_size>> : k \in DOMAIN table}

(* the frames that hold the rows of df in another order *)
Reorderings(df) ==
    {[i \in DOMAIN df |-> df[f[i]]] : f \in Permutations(DOMAIN df)}

(* C16: the table returned by calculate_cohort_retention does not depend   *)
(* on the order of the membership records: every ordering of the same      *)
(* memberships gives the same set of (cohort_month, month_number,          *)
(* retained_fans, cohort_size) rows -- also when one fan has memberships   *)
(* in two cohort months whose active months overlap.                       *)
C16_RetentionOrderIndependent ==
    op = <<"calculate_cohort_retention">> =>
        \A df \in Reorderings(memberships_df) :
            /\ CohortRetention(df).exc = exc
            /\ RetentionRowSet(CohortRetention(df).ret) = RetentionRowSet(ret)

-----------------------------------------------------------------------------
(* C17: every row returned by calculate_cohort_retention has               *)
(* month_number >= 0 and 1 <= retained_fans <= cohort_size, hence          *)
(* 0 < retention_rate_pct <= 100, and no (cohort_month, month_number) pair *)
(* occurs in more than one row -- also when the 30-day approximation maps  *)
(* two calendar months of one cohort to the same month_number.             *)
C17_RetentionRowsWithinBounds ==
    op = <<"calculate_cohort_retention">> =>
        /\ \A k \in DOMAIN ret :
              /\ ret[k].month_number >= 0
              /\ 1 <= ret[k].retained_fans
              /\ ret[k].retained_fans <= ret[k].cohort_size
              /\ RatLess(<<0, 1>>, ret[k].retention_rate_pct)
              /\ ~RatLess(<<100, 1>>, ret[k].retention_rate_pct)
        /\ \A k, n \in DOMAIN ret :
              (/\ ret[k].cohort_month = ret[n].cohort_month
               /\ ret[k].month_number = ret[n].month_number) => k = n

(* a returned table in which two calendar months of one cohort and one fan *)
(* (February and March 2024, 29 days apart) fall on one month_number, and  *)
(* the row of that month_number counts the fan once                        *)
C17_Witness ==
    /\ op = <<"calculate_cohort_retention">>
    /\ \E r1, r2 \in DropDuplicates(AllActiveMonths(memberships_df)) :
          /\ r1.fan_id = r2.fan_id
          /\ r1.cohort_month = r2.cohort_month
          /\ r1.active_month # r2.active_month
          /\ MonthNumber(r1) = MonthNumber(r2)
          /\ \E k \in DOMAIN ret :
                /\ ret[k].cohort_month = r1.cohort_month
                /\ ret[k].month_number = MonthNumber(r1)
                /\ ret[k].retained_fans = 1
                /\ ret[k].cohort_size = 1

====
